---- MODULE Spec2Model ----
(***************************************************************************)
(* Model of the midwife backend (src/index.js, the Zod-validated server    *)
(* that starts at line 178): the Express handlers of the users, admin and  *)
(* reports APIs over the two MongoDB collections "users" and "reports".    *)
(*                                                                         *)
(* A handler runs atomically between two awaits; every await on a storage  *)
(* call is a point where other requests interleave.  A request that is     *)
(* suspended between two storage calls is a record in `pending`.           *)
(*                                                                         *)
(* JavaScript values are modelled as strings so that values of different   *)
(* JavaScript types can be stored in one field: "true", "false", "null",   *)
(* "undefined" (a field missing from a request body), and other strings.   *)
(* A field missing from a stored document is missing from the record.      *)
(***************************************************************************)
EXTENDS Integers, Sequences, FiniteSets, Bags, TLC

VARIABLES
    users,      \* collection "users": documents in natural (insertion) order
    reports,    \* collection "reports": documents in natural order
    pending,    \* bag of the requests suspended between two storage calls
    lastResp,   \* the response most recently sent, with its request
    now,        \* the server clock, in milliseconds
    started,    \* how many events happened: requests received, clock advances
    registered  \* emails registered successfully and not deleted since

vars == <<users, reports, pending, lastResp, now, started, registered>>

-----------------------------------------------------------------------------
(* Bounds of the model *)

MaxEvents == 4

(* Program constants *)

ThirtyMinutes == 30 * 60 * 1000
TwentyFourHours == 24 * 60 * 60 * 1000
MinPasswordLen == 6

(* Inputs *)

Undefined == "undefined"
Emails == {"a@x.com", "b@x.com"}
Passwords == {"secret1", "secret2", "abc"}
BodyFlags == {"true", "false", Undefined}
\* the clock advances by just more than one of the two windows
TickSteps == {ThirtyMinutes + 1, TwentyFourHours + 1}

-----------------------------------------------------------------------------
(* JavaScript and driver helpers *)

\* JavaScript truthiness of a value: !v is true for these
Falsy == {"false", "null", Undefined, ""}
Truthy(v) == v \notin Falsy

\* doc.field, undefined when the document has no such field
Get(doc, f) == IF f \in DOMAIN doc THEN doc[f] ELSE Undefined

\* the driver serialises an undefined value of an update as null
ToBson(v) == IF v = Undefined THEN "null" ELSE v

\* bcrypt.hash(password, 10): a value from which compare recovers the match
Hash(pw) == "$2b$10$" \o pw

\* bcrypt.compare(password, hash)
Compare(pw, h) == h = Hash(pw)

\* the fields that hold a Date, which is stored as it is
DateFields == {"createdAt", "solvedAt"}

\* { $set: upd } applied to one document
SetFields(doc, upd) ==
    [f \in DOMAIN doc \cup DOMAIN upd |->
        IF f \notin DOMAIN upd THEN doc[f]
        ELSE IF f \in DateFields THEN upd[f]
        ELSE ToBson(upd[f])]

\* index of the first document of coll that matches { field: value }, 0 if none
FindIndex(coll, field, value) ==
    LET hits == {i \in 1..Len(coll) : Get(coll[i], field) = value}
    IN  IF hits = {} THEN 0 ELSE CHOOSE i \in hits : \A j \in hits : i <= j

\* variant of UpdateOne: the update reaches every document, as updateMany({}, ...)
UpdateEvery(coll, field, value, upd) ==
    IF FindIndex(coll, field, value) = 0 THEN coll
    ELSE [i \in 1..Len(coll) |-> SetFields(coll[i], upd)]

\* collection.updateOne({ field: value }, { $set: upd })
UpdateOne(coll, field, value, upd) ==
    LET i == FindIndex(coll, field, value)
    IN  IF i = 0 THEN coll ELSE [coll EXCEPT ![i] = SetFields(coll[i], upd)]

\* collection.deleteOne({ field: value })
DeleteOne(coll, field, value) ==
    LET i == FindIndex(coll, field, value)
    IN  IF i = 0 THEN coll
        ELSE SubSeq(coll, 1, i - 1) \o SubSeq(coll, i + 1, Len(coll))

\* collection.find({ createdAt: { $gte: since } }).toArray()
FindSince(coll, since) == SelectSeq(coll, LAMBDA d : d.createdAt >= since)

\* .sort({ createdAt: -1 }): newest first, equal keys keep their order
RECURSIVE SortDesc(_)
SortDesc(coll) ==
    IF coll = <<>> THEN <<>>
    ELSE LET best == CHOOSE i \in 1..Len(coll) :
                        /\ \A j \in 1..Len(coll) : coll[j].createdAt <= coll[i].createdAt
                        /\ \A j \in 1..(i - 1) : coll[j].createdAt < coll[i].createdAt
         IN  <<coll[best]>> \o
             SortDesc(SubSeq(coll, 1, best - 1) \o SubSeq(coll, best + 1, Len(coll)))

\* the _id insertOne gives a document: one that no stored document has
NextId(coll) ==
    IF coll = <<>> THEN 1
    ELSE 1 + CHOOSE n \in {coll[i]._id : i \in 1..Len(coll)} :
                 \A i \in 1..Len(coll) : coll[i]._id <= n

\* variant of Sanitize: the document is returned as stored
SanitizeNothing(doc) == doc

\* ({ password, ...user }) => user
Sanitize(doc) == [f \in DOMAIN doc \ {"password"} |-> doc[f]]

SanitizeAll(coll) == [i \in 1..Len(coll) |-> Sanitize(coll[i])]

-----------------------------------------------------------------------------
(* Responses *)

NoData == [none |-> "none"]

Response(op, req, status, message, data) ==
    [op |-> op, req |-> req, status |-> status, message |-> message, data |-> data]

\* a handler that threw outside any try block sends nothing
NoResponse(op, req) == Response(op, req, 0, "", NoData)

Init ==
    /\ users = <<>>
    /\ reports = <<>>
    /\ pending = EmptyBag
    /\ lastResp = Response("none", [op |-> "none"], 0, "", NoData)
    /\ now = 0
    /\ started = 0
    /\ registered = {}

\* an event from outside happens: a request is received, or the clock advances
Receive ==
    /\ started < MaxEvents
    /\ started' = started + 1

Suspend(r) == pending' = pending (+) SetToBag({r})
Resume(r) == pending' = pending (-) SetToBag({r})
Suspended == BagToSet(pending)

-----------------------------------------------------------------------------
(* POST /api/v1/register *)

\* the keys of registerSchema the model varies
RegisterSchemaKeys == {"email", "password", "confirmPassword"}

\* bodies of the schema's keys, and bodies that also carry the lifecycle flags
RegisterBodies ==
    { b \in [email : Emails, password : Passwords, confirmPassword : Passwords] :
        b.password = b.confirmPassword \/ b.password = "secret1" }
    \cup { [email |-> e, password |-> "secret1", confirmPassword |-> "secret1",
            role |-> "admin", isVerified |-> "true", isBlocked |-> "true"] : e \in Emails }

\* the value registerSchema.parse returns: z.object drops the keys it does not know
RegisterSchemaParse(body) == [f \in DOMAIN body \cap RegisterSchemaKeys |-> body[f]]

\* registerSchema.parse(req.body), for the fields the model varies
RegisterSchemaOK(body) ==
    /\ Len(body.password) >= MinPasswordLen
    /\ Len(body.confirmPassword) >= MinPasswordLen

\* variant of NewUser: the request body is spread into the document
NewUserSpread(r) ==
    [f \in (DOMAIN r.body \ {"confirmPassword"}) \cup {"_id", "role", "isVerified", "createdAt"} |->
        IF f = "_id" THEN NextId(users)
        ELSE IF f = "createdAt" THEN now
        ELSE IF f = "password" THEN Hash(r.body.password)
        ELSE IF f \in DOMAIN r.body THEN r.body[f]
        ELSE IF f = "role" THEN "user"
        ELSE "false"]

NewUser(r) ==
    LET validatedData == RegisterSchemaParse(r.body)
    IN  [_id |-> NextId(users), email |-> validatedData.email,
         password |-> Hash(validatedData.password),
         role |-> "user", isVerified |-> "false", createdAt |-> now]

RegisterStart(body) ==
    LET r == [op |-> "register", body |-> body,
              after |-> body.email \in registered]
    IN  /\ Receive
        /\ IF ~RegisterSchemaOK(body)
           THEN /\ lastResp' = Response("register", r, 400, "ZodError", NoData)
                /\ UNCHANGED pending
           ELSE IF body.password # body.confirmPassword
           THEN /\ lastResp' = Response("register", r, 400, "Passwords do not match", NoData)
                /\ UNCHANGED pending
           ELSE IF FindIndex(users, "email", body.email) # 0
           THEN /\ lastResp' = Response("register", r, 400, "User already exists", NoData)
                /\ UNCHANGED pending
           ELSE /\ Suspend(r)
                /\ UNCHANGED lastResp
        /\ UNCHANGED <<users, reports, now, registered>>

RegisterInsert(r) ==
    /\ r \in Suspended /\ r.op = "register"
    /\ Resume(r)
    /\ users' = Append(users, NewUser(r))
    /\ registered' = registered \cup {r.body.email}
    /\ lastResp' = Response("register", r, 201,
                            "User registered successfully. Please verify your email or phone number.",
                            NoData)
    /\ UNCHANGED <<reports, now, started>>

-----------------------------------------------------------------------------
(* POST /api/v1/login *)

LoginBodies == [email : Emails, password : {"secret1", "secret2", Undefined}]

\* jwt.sign({ email, role, isVerified, isBlocked }, secret, { expiresIn: "1d" })
Sign(user) ==
    [email |-> user.email, role |-> user.role,
     isVerified |-> Get(user, "isVerified"), isBlocked |-> Get(user, "isBlocked")]

\* the response of login when findOne returns no user
LoginNoUser(r) == Response("login", r, 401, "Invalid email or password", NoData)

LoginStart(body) ==
    LET i == FindIndex(users, "email", body.email)
        r == [op |-> "login", body |-> body]
    IN  /\ Receive
        /\ IF i = 0
           THEN /\ lastResp' = LoginNoUser(r)
                /\ UNCHANGED pending
           ELSE /\ Suspend([op |-> "login", body |-> body,
                            user |-> users[i]])
                /\ UNCHANGED lastResp
        /\ UNCHANGED <<users, reports, now, registered>>

\* variant of LoginResult: no check of isBlocked
LoginResultUnblocked(r) ==
    IF r.body.password = Undefined
    THEN NoResponse("login", r)
    ELSE IF ~Compare(r.body.password, r.user.password)
    THEN Response("login", r, 401, "Invalid email or password", NoData)
    ELSE Response("login", r, 200, "Login successful",
                  [token |-> Sign(r.user), role |-> r.user.role,
                   isVerified |-> Get(r.user, "isVerified"),
                   isBlocked |-> Get(r.user, "isBlocked")])

\* variant of LoginResult: isBlocked is checked before the password
LoginResultBlockedFirst(r) ==
    IF r.body.password = Undefined
    THEN NoResponse("login", r)
    ELSE IF Truthy(Get(r.user, "isBlocked"))
    THEN Response("login", r, 403, "Your account is on hold", NoData)
    ELSE IF ~Compare(r.body.password, r.user.password)
    THEN Response("login", r, 401, "Invalid email or password", NoData)
    ELSE Response("login", r, 200, "Login successful",
                  [token |-> Sign(r.user), role |-> r.user.role,
                   isVerified |-> Get(r.user, "isVerified"),
                   isBlocked |-> Get(r.user, "isBlocked")])

\* the response of login once bcrypt.compare has settled
LoginResult(r) ==
    IF r.body.password = Undefined
    THEN NoResponse("login", r)   \* bcrypt.compare rejects, nothing catches it
    ELSE IF ~Compare(r.body.password, r.user.password)
    THEN Response("login", r, 401, "Invalid email or password", NoData)
    ELSE IF Truthy(Get(r.user, "isBlocked"))
    THEN Response("login", r, 403, "Your account is on hold", NoData)
    ELSE Response("login", r, 200, "Login successful",
                  [token |-> Sign(r.user), role |-> r.user.role,
                   isVerified |-> Get(r.user, "isVerified"),
                   isBlocked |-> Get(r.user, "isBlocked")])

LoginFinish(r) ==
    /\ r \in Suspended /\ r.op = "login"
    /\ Resume(r)
    /\ lastResp' = LoginResult(r)
    /\ UNCHANGED <<users, reports, now, started, registered>>

-----------------------------------------------------------------------------
(* PATCH /api/v1/admin/verify-user/:email *)

VerifyStart(email) ==
    LET r == [op |-> "verify-user", email |-> email]
    IN  /\ Receive
        /\ IF FindIndex(users, "email", email) = 0
           THEN /\ lastResp' = Response("verify-user", r, 404, "User not found", NoData)
                /\ UNCHANGED pending
           ELSE /\ Suspend(r)
                /\ UNCHANGED lastResp
        /\ UNCHANGED <<users, reports, now, registered>>

VerifyUpdate(r) ==
    /\ r \in Suspended /\ r.op = "verify-user"
    /\ Resume(r)
    /\ users' = UpdateOne(users, "email", r.email, [isVerified |-> "true"])
    /\ lastResp' = Response("verify-user", r, 200, "User verified successfully", NoData)
    /\ UNCHANGED <<reports, now, started, registered>>

-----------------------------------------------------------------------------
(* PATCH /api/v1/admin/block-user/:email *)

BlockBodies == [isBlocked : BodyFlags, isVerified : BodyFlags]

BlockStart(email, body) ==
    LET r == [op |-> "block-user", email |-> email, body |-> body]
    IN  /\ Receive
        /\ IF FindIndex(users, "email", email) = 0
           THEN /\ lastResp' = Response("block-user", r, 404, "User not found", NoData)
                /\ UNCHANGED pending
           ELSE /\ Suspend(r)
                /\ UNCHANGED lastResp
        /\ UNCHANGED <<users, reports, now, registered>>

\* variant of BlockUpdate: the two flags are written by two updates, and the
\* request is observed after the first
BlockUpdateHalf(r) ==
    /\ r \in Suspended /\ r.op = "block-user"
    /\ Resume(r)
    /\ users' = UpdateOne(users, "email", r.email, [isBlocked |-> r.body.isBlocked])
    /\ lastResp' = Response("block-user", r, 200, "User status updated successfully", NoData)
    /\ UNCHANGED <<reports, now, started, registered>>

BlockUpdate(r) ==
    /\ r \in Suspended /\ r.op = "block-user"
    /\ Resume(r)
    /\ users' = UpdateOne(users, "email", r.email,
                          [isBlocked |-> r.body.isBlocked, isVerified |-> r.body.isVerified])
    /\ lastResp' = Response("block-user", r, 200, "User status updated successfully", NoData)
    /\ UNCHANGED <<reports, now, started, registered>>

-----------------------------------------------------------------------------
(* GET /api/v1/admin/users *)

ListUsers ==
    LET r == [op |-> "users"]
    IN  /\ Receive
        /\ lastResp' = Response("users", r, 200, "",
                                [users |-> SanitizeAll(SortDesc(users))])
        /\ UNCHANGED <<users, reports, pending, now, registered>>

-----------------------------------------------------------------------------
(* DELETE /api/v1/admin/users *)

DeleteUser(email) ==
    LET r == [op |-> "delete-user", email |-> email]
    IN  /\ Receive
        /\ IF ~Truthy(email)
           THEN /\ lastResp' = Response("delete-user", r, 400, "Email is required", NoData)
                /\ UNCHANGED <<users, registered>>
           ELSE IF FindIndex(users, "email", email) = 0   \* deletedCount === 0
           THEN /\ lastResp' = Response("delete-user", r, 404, "User not found", NoData)
                /\ UNCHANGED <<users, registered>>
           ELSE /\ users' = DeleteOne(users, "email", email)
                /\ registered' = registered \ {email}
                /\ lastResp' = Response("delete-user", r, 200, "User deleted successfully", NoData)
        /\ UNCHANGED <<reports, pending, now>>

-----------------------------------------------------------------------------
(* GET /api/v1/admin/recent-users *)

RecentStart ==
    LET r == [op |-> "recent-users", now |-> now,
              last30MinutesUsers |-> FindSince(users, now - ThirtyMinutes)]
    IN  /\ Receive
        /\ Suspend(r)
        /\ UNCHANGED <<users, reports, lastResp, now, registered>>

\* variant of RecentFinish: the second window is taken from the clock at the
\* time of the second query instead of the handler's single now
RecentFinishDrift(r) ==
    /\ r \in Suspended /\ r.op = "recent-users"
    /\ Resume(r)
    /\ lastResp' = Response("recent-users", r, 200, "",
                            [last30MinutesUsers |-> r.last30MinutesUsers,
                             last24HoursUsers |-> FindSince(users, now - TwentyFourHours)])
    /\ UNCHANGED <<users, reports, now, started, registered>>

RecentFinish(r) ==
    /\ r \in Suspended /\ r.op = "recent-users"
    /\ Resume(r)
    /\ lastResp' = Response("recent-users", r, 200, "",
                            [last30MinutesUsers |-> r.last30MinutesUsers,
                             last24HoursUsers |-> FindSince(users, r.now - TwentyFourHours)])
    /\ UNCHANGED <<users, reports, now, started, registered>>

-----------------------------------------------------------------------------
(* POST /api/v1/reports *)

\* the keys of reportSchema the model varies; createdAt is filled by its default
ReportSchemaKeys == {"name"}

SubmitBodies ==
    { [name |-> "Rina"],
      [name |-> ""],
      [name |-> "Rina", isSolved |-> "true", solution |-> "rest"],
      [name |-> "Rina", solverName |-> "Dr A", solvedAt |-> "2024-01-01"] }

\* reportSchema.parse(req.body) succeeds
ReportSchemaOK(body) == "name" \in DOMAIN body /\ Len(body.name) >= 1

\* variant of ReportSchemaParse: the keys the schema does not know are kept
ReportSchemaPassthrough(body) ==
    [f \in DOMAIN body \cup {"createdAt"} |->
        IF f = "createdAt" THEN now ELSE body[f]]

\* the value reportSchema.parse returns: z.object drops the keys it does not know
ReportSchemaParse(body) ==
    [f \in (DOMAIN body \cap ReportSchemaKeys) \cup {"createdAt"} |->
        IF f = "createdAt" THEN now ELSE body[f]]

\* { ...validatedData, isSolved: false }, with the _id insertOne adds
ReportWithStatus(validatedData, id) ==
    [f \in DOMAIN validatedData \cup {"isSolved", "_id"} |->
        IF f = "isSolved" THEN "false"
        ELSE IF f = "_id" THEN id
        ELSE validatedData[f]]

SubmitReport(body) ==
    LET r == [op |-> "submit-report", body |-> body]
        doc == ReportWithStatus(ReportSchemaParse(body), NextId(reports))
    IN  /\ Receive
        /\ IF ~ReportSchemaOK(body)
           THEN /\ lastResp' = Response("submit-report", r, 400, "ZodError", NoData)
                /\ UNCHANGED reports
           ELSE /\ reports' = Append(reports, doc)
                /\ lastResp' = Response("submit-report", r, 201,
                                        "Report submitted successfully.", [report |-> doc])
        /\ UNCHANGED <<users, pending, now, registered>>

-----------------------------------------------------------------------------
(* GET /api/v1/reports *)

\* variant of ListReports: the 24-hour list comes from a query of its own,
\* and the full list is cut to its newest report
ListReportsOwnQuery ==
    LET r == [op |-> "reports"]
        allReports == IF reports = <<>> THEN <<>> ELSE SubSeq(SortDesc(reports), 1, 1)
    IN  /\ Receive
        /\ lastResp' = Response("reports", r, 200, "",
                                [allReportsCount |-> Len(allReports),
                                 allReports |-> allReports,
                                 last24HoursReports |->
                                     FindSince(reports, now - TwentyFourHours)])
        /\ UNCHANGED <<users, reports, pending, now, registered>>

ListReports ==
    LET r == [op |-> "reports"]
        allReports == SortDesc(reports)
    IN  /\ Receive
        /\ lastResp' = Response("reports", r, 200, "",
                                [allReportsCount |-> Len(allReports),
                                 allReports |-> allReports,
                                 last24HoursReports |->
                                     FindSince(allReports, now - TwentyFourHours)])
        /\ UNCHANGED <<users, reports, pending, now, registered>>

-----------------------------------------------------------------------------
(* PATCH /api/v1/reports/:reportId *)

ResolveBodies ==
    [isSolved : {"true", "false", Undefined},
     solution : {"rest", Undefined},
     solverName : {"Dr A", "Dr B", ""}]

\* the reportId of a request: 0 stands for a string that is no ObjectId, and
\* NextId(reports) is the id of no stored report
ResolveIds == {0, NextId(reports)} \cup {reports[i]._id : i \in 1..Len(reports)}

\* variant of ResolveValid: only isSolved is required
ResolveValidLax(body) == Truthy(body.isSolved)

\* variant of ResolveValid: the three tests are joined by && instead of ||
ResolveValidAny(body) ==
    Truthy(body.isSolved) \/ Truthy(body.solution) \/ Truthy(body.solverName)

\* the handler's validation passes: !isSolved || !solution || !solverName is false
ResolveValid(body) ==
    Truthy(body.isSolved) /\ Truthy(body.solution) /\ Truthy(body.solverName)

\* ObjectId is called without new: whether that call is accepted depends on the
\* installed driver, so either outcome is allowed for each request
ResolveStart(reportId, body, callable) ==
    LET r == [op |-> "resolve-report", reportId |-> reportId,
              body |-> body]
    IN  /\ Receive
        /\ IF ~ResolveValid(body)
           THEN /\ lastResp' = Response("resolve-report", r, 400,
                                        "isSolved, solution, and solverName are required",
                                        NoData)
                /\ UNCHANGED <<reports, pending>>
           ELSE IF reportId = 0 \/ ~callable   \* ObjectId(reportId) throws
           THEN /\ lastResp' = Response("resolve-report", r, 500,
                                        "Internal server error", NoData)
                /\ UNCHANGED <<reports, pending>>
           ELSE IF FindIndex(reports, "_id", reportId) = 0   \* matchedCount === 0
           THEN /\ lastResp' = Response("resolve-report", r, 404, "Report not found", NoData)
                /\ UNCHANGED <<reports, pending>>
           ELSE /\ reports' = UpdateOne(reports, "_id", reportId,
                                        [isSolved |-> body.isSolved,
                                         solution |-> body.solution,
                                         solverName |-> body.solverName,
                                         solvedAt |-> now])
                /\ Suspend(r)
                /\ UNCHANGED lastResp
        /\ UNCHANGED <<users, now, registered>>

ResolveFinish(r) ==
    /\ r \in Suspended /\ r.op = "resolve-report"
    /\ Resume(r)
    /\ lastResp' = Response("resolve-report", r, 200, "Report updated successfully",
                            [report |-> reports[FindIndex(reports, "_id", r.reportId)]])
    /\ UNCHANGED <<users, reports, now, started, registered>>

-----------------------------------------------------------------------------
(* The clock *)

Tick(d) ==
    /\ Receive
    /\ now' = now + d
    /\ UNCHANGED <<users, reports, pending, lastResp, registered>>

-----------------------------------------------------------------------------
(* Storage failures: a call on a collection rejects with a driver error *)

\* err.message of the driver's error
DriverError == "MongoNetworkError: connection closed"

\* one request of every route that reaches its first storage call
FaultRequests ==
    { [op |-> "register",
       body |-> [email |-> "a@x.com", password |-> "secret1", confirmPassword |-> "secret1"],
       after |-> "a@x.com" \in registered],
      [op |-> "login", body |-> [email |-> "a@x.com", password |-> "secret1"]],
      [op |-> "verify-user", email |-> "a@x.com"],
      [op |-> "block-user", email |-> "a@x.com",
       body |-> [isBlocked |-> "true", isVerified |-> "true"]],
      [op |-> "users"],
      [op |-> "delete-user", email |-> "a@x.com"],
      [op |-> "recent-users"],
      [op |-> "submit-report", body |-> [name |-> "Rina"]],
      [op |-> "reports"],
      [op |-> "resolve-report", reportId |-> 1,
       body |-> [isSolved |-> "true", solution |-> "rest", solverName |-> "Dr A"]] }

\* the routes whose continuation after the first await makes a storage call
\* (the continuation of login calls bcrypt.compare only)
StorageContinuations ==
    {"register", "verify-user", "block-user", "recent-users", "resolve-report"}

\* the request, marked with the error its storage call rejected with
WithFault(r) ==
    [f \in DOMAIN r \cup {"failed"} |-> IF f = "failed" THEN DriverError ELSE r[f]]

\* what each handler sends when a storage call of it rejects with err
CatchResponse(r, err) ==
    IF r.op \in {"register", "submit-report"}
    THEN Response(r.op, r, 400, err, NoData)             \* catch: 400, err.message
    ELSE IF r.op = "recent-users"
    THEN Response(r.op, r, 500, err, NoData)             \* catch: 500, error.message
    ELSE IF r.op \in {"login", "verify-user", "users"}
    THEN NoResponse(r.op, r)                             \* no try: nothing is sent
    ELSE Response(r.op, r, 500, "Internal server error", NoData)

\* the first storage call of a request rejects
StorageFailsAtStart(r) ==
    /\ Receive
    /\ lastResp' = CatchResponse(WithFault(r), DriverError)
    /\ UNCHANGED <<users, reports, pending, now, registered>>

\* the storage call a suspended request resumes with rejects
StorageFailsAtResume(r) ==
    /\ r \in Suspended /\ r.op \in StorageContinuations
    /\ Resume(r)
    /\ lastResp' = CatchResponse(WithFault(r), DriverError)
    /\ UNCHANGED <<users, reports, now, started, registered>>

-----------------------------------------------------------------------------
NextAccounts ==
    \/ \E body \in RegisterBodies : RegisterStart(body)
    \/ \E r \in Suspended : RegisterInsert(r)
    \/ \E body \in LoginBodies : LoginStart(body)
    \/ \E r \in Suspended : LoginFinish(r)
    \/ \E email \in Emails : VerifyStart(email)
    \/ \E r \in Suspended : VerifyUpdate(r)
    \/ \E email \in Emails, body \in BlockBodies : BlockStart(email, body)
    \/ \E r \in Suspended : BlockUpdate(r)
    \/ ListUsers
    \/ \E email \in Emails \cup {Undefined} : DeleteUser(email)
    \/ RecentStart
    \/ \E r \in Suspended : RecentFinish(r)
    \/ \E d \in TickSteps : Tick(d)

NextReports ==
    \/ \E body \in SubmitBodies : SubmitReport(body)
    \/ ListReports
    \/ \E reportId \in ResolveIds, body \in ResolveBodies, callable \in BOOLEAN :
          ResolveStart(reportId, body, callable)
    \/ \E r \in Suspended : ResolveFinish(r)
    \/ \E d \in TickSteps : Tick(d)

Next == NextAccounts \/ NextReports

SpecAccounts == Init /\ [][NextAccounts]_vars
SpecReports == Init /\ [][NextReports]_vars
Spec == Init /\ [][Next]_vars

NextFaults ==
    \/ \E r \in FaultRequests : StorageFailsAtStart(r)
    \/ \E r \in Suspended : StorageFailsAtResume(r)

SpecFaults == Init /\ [][Next \/ NextFaults]_vars

-----------------------------------------------------------------------------
(* Properties of the account registry *)

EmailCount(email) == Cardinality({i \in 1..Len(users) : users[i].email = email})

\* C1: in every reachable state the user store holds at most one account per
\* email, also when Register requests for one email run concurrently.
C1_OneAccountPerEmail == \A email \in Emails : EmailCount(email) <= 1

\* C2: a valid Register that starts after a Register of the same email has
\* succeeded (and no Delete of it since) fails with 400 "User already exists",
\* and the store holds exactly one account of that email.
C2_SecondRegisterConflicts ==
    (/\ lastResp.op = "register"
     /\ lastResp.req.after
     /\ RegisterSchemaOK(lastResp.req.body)
     /\ lastResp.req.body.password = lastResp.req.body.confirmPassword)
    => /\ lastResp.status = 400
       /\ lastResp.message = "User already exists"
       /\ EmailCount(lastResp.req.body.email) = 1

\* a login response for a request whose lookup found an account
IsLoginOf(resp) == resp.op = "login" /\ "user" \in DOMAIN resp.req

\* C3: a Login whose lookup found an account with isBlocked = true never
\* succeeds and never returns a token; when its password matches, it is
\* answered with the blocked error, 403 "Your account is on hold".
C3_BlockedNeverLogsIn ==
    (IsLoginOf(lastResp) /\ Get(lastResp.req.user, "isBlocked") = "true")
    => /\ lastResp.status # 200
       /\ "token" \notin DOMAIN lastResp.data
       /\ Compare(lastResp.req.body.password, lastResp.req.user.password)
          => /\ lastResp.status = 403
             /\ lastResp.message = "Your account is on hold"

C3_Witness ==
    /\ IsLoginOf(lastResp)
    /\ Get(lastResp.req.user, "isBlocked") = "true"
    /\ Compare(lastResp.req.body.password, lastResp.req.user.password)
    /\ lastResp.status = 403

\* a suspended Login that found an account and carries a password that is not
\* the account's
WrongPassword(r) ==
    /\ r.op = "login"
    /\ r.body.password # Undefined
    /\ ~Compare(r.body.password, r.user.password)

SameAnswer(a, b) == a.status = b.status /\ a.message = b.message /\ a.data = b.data

C5_ListHidesPasswords ==
    [][ListUsers =>
        LET out == lastResp'.data.users
        IN  /\ Len(out) = Len(users)
            /\ \A i \in 1..Len(users) : \E j \in 1..Len(out) : out[j]._id = users[i]._id
            /\ \A j \in 1..Len(out) : "password" \notin DOMAIN out[j]]_vars

C5_Witness ==
    /\ lastResp.op = "users"
    /\ Len(lastResp.data.users) >= 1
    /\ users # <<>>
    /\ \A i \in 1..Len(users) : "password" \in DOMAIN users[i]

\* the user documents a response carries
ReturnedUsers(resp) ==
    IF resp.op = "users" THEN {resp.data.users[i] : i \in 1..Len(resp.data.users)}
    ELSE IF resp.op = "recent-users"
    THEN {resp.data.last30MinutesUsers[i] : i \in 1..Len(resp.data.last30MinutesUsers)}
         \cup {resp.data.last24HoursUsers[i] : i \in 1..Len(resp.data.last24HoursUsers)}
    ELSE {}

\* C6: no response of the API carries the stored password hash of an account.
C6_NoHashInResponse ==
    /\ \A d \in ReturnedUsers(lastResp) : "password" \notin DOMAIN d
    /\ lastResp.op = "login" => "password" \notin DOMAIN lastResp.data

\* the (isBlocked, isVerified) pair of a stored account
FlagPair(doc) == <<Get(doc, "isBlocked"), Get(doc, "isVerified")>>

\* the pair a block-user request asks for, as it is stored
RequestedPair(r) == <<ToBson(r.body.isBlocked), ToBson(r.body.isVerified)>>

\* the step resumes the suspended request r
Resumes(r) == r \in Suspended /\ pending' = pending (-) SetToBag({r})

\* C7: every step that changes the (isBlocked, isVerified) pair of an account
\* either stores the complete pair of one block-user request for its email, or
\* is the update of a verify-user request, which leaves isBlocked alone; and
\* when a block-user request is applied, the account has that request's pair.
C7_BlockPairsWhole ==
    [][/\ \A i \in 1..Len(users), j \in 1..Len(users') :
            (users[i]._id = users'[j]._id /\ FlagPair(users'[j]) # FlagPair(users[i]))
            => \/ \E r \in Suspended :
                     /\ r.op = "block-user" /\ r.email = users[i].email
                     /\ Resumes(r)
                     /\ FlagPair(users'[j]) = RequestedPair(r)
               \/ \E r \in Suspended :
                     /\ r.op = "verify-user" /\ r.email = users[i].email
                     /\ Resumes(r)
                     /\ FlagPair(users'[j]) = <<Get(users[i], "isBlocked"), "true">>
       /\ \A r \in Suspended :
            (r.op = "block-user" /\ Resumes(r) /\ FindIndex(users, "email", r.email) # 0)
            => FlagPair(users'[FindIndex(users, "email", r.email)]) = RequestedPair(r)
      ]_vars

C7_Witness ==
    /\ lastResp.op = "block-user" /\ lastResp.status = 200
    /\ \E r \in Suspended :
          /\ r.op = "block-user" /\ r.email = lastResp.req.email
          /\ r.body.isBlocked # lastResp.req.body.isBlocked
          /\ r.body.isVerified # lastResp.req.body.isVerified
    /\ \E i \in 1..Len(users) :
          /\ users[i].email = lastResp.req.email
          /\ FlagPair(users[i]) = RequestedPair(lastResp.req)
          /\ FlagPair(users[i]) # <<Undefined, "false">>

\* C8: a step changes isVerified of a stored account only when it is the
\* update of a verify-user or block-user request that names the account's
\* email; no other operation changes it.
C8_VerifiedOnlyByAdmin ==
    [][\A i \in 1..Len(users), j \in 1..Len(users') :
          (users[i]._id = users'[j]._id
             /\ Get(users'[j], "isVerified") # Get(users[i], "isVerified"))
          => \E r \in Suspended :
                /\ r.op \in {"verify-user", "block-user"}
                /\ r.email = users[i].email
                /\ Resumes(r)
      ]_vars

C8_Witness ==
    /\ lastResp.op = "verify-user" /\ lastResp.status = 200
    /\ \E i \in 1..Len(users) :
          users[i].email = lastResp.req.email /\ users[i].isVerified = "true"
    /\ \E i \in 1..Len(users) :
          users[i].email # lastResp.req.email /\ users[i].isVerified = "false"

-----------------------------------------------------------------------------
(* Properties of the report registry *)

ResolutionFields == {"solution", "solverName", "solvedAt"}

\* C9: every stored report has none of solution, solverName and solvedAt while
\* isSolved is false, and all three, with solution and solverName non-empty,
\* once isSolved is set; no report has only some of them.
C9_ResolutionAllOrNothing ==
    \A i \in 1..Len(reports) :
        LET d == reports[i]
        IN  /\ "isSolved" \in DOMAIN d
            /\ d.isSolved = "false" => ResolutionFields \cap DOMAIN d = {}
            /\ d.isSolved # "false" =>
                  /\ Truthy(d.isSolved)
                  /\ ResolutionFields \subseteq DOMAIN d
                  /\ Truthy(d.solution) /\ Truthy(d.solverName)

C9_Witness ==
    /\ \E i \in 1..Len(reports) :
          reports[i].isSolved = "true" /\ ResolutionFields \subseteq DOMAIN reports[i]
    /\ \E i \in 1..Len(reports) :
          reports[i].isSolved = "false" /\ ResolutionFields \cap DOMAIN reports[i] = {}

\* one of isSolved, solution, solverName is missing from the body or falsy
LacksField(body) ==
    \E f \in {"isSolved", "solution", "solverName"} : Get(body, f) \in Falsy

\* C10: a Resolve request whose body lacks one of isSolved, solution and
\* solverName is answered 400 and leaves every stored report unchanged.
C10_InvalidResolveChangesNothing ==
    [][\A reportId \in ResolveIds, body \in ResolveBodies, callable \in BOOLEAN :
          (ResolveStart(reportId, body, callable) /\ LacksField(body))
          => /\ lastResp'.op = "resolve-report"
             /\ lastResp'.req.body = body
             /\ lastResp'.status = 400
             /\ lastResp'.message = "isSolved, solution, and solverName are required"
             /\ reports' = reports
             /\ pending' = pending
      ]_vars

C10_Witness ==
    /\ lastResp.op = "resolve-report" /\ lastResp.status = 400
    /\ LacksField(lastResp.req.body)
    /\ Truthy(lastResp.req.body.isSolved)
    /\ \E i \in 1..Len(reports) :
          reports[i]._id = lastResp.req.reportId /\ reports[i].isSolved = "false"


\* the elements of a sequence
Elements(seq) == {seq[i] : i \in 1..Len(seq)}

\* C11: in every response of List reports, each element of
\* last24HoursReports is an element of allReports of that response, and
\* allReportsCount is the length of allReports.
C11_RecentReportsListed ==
    lastResp.op = "reports"
    => /\ Elements(lastResp.data.last24HoursReports) \subseteq Elements(lastResp.data.allReports)
       /\ lastResp.data.allReportsCount = Len(lastResp.data.allReports)

C11_Witness ==
    /\ lastResp.op = "reports"
    /\ Len(lastResp.data.last24HoursReports) >= 1
    /\ Len(lastResp.data.allReports) = 2


\* coll without its i-th document
Without(coll, i) == SubSeq(coll, 1, i - 1) \o SubSeq(coll, i + 1, Len(coll))

\* the response before this step is the success of a Delete of this email
JustDeleted(email) ==
    /\ lastResp.op = "delete-user" /\ lastResp.status = 200
    /\ lastResp.req.email = email

\* C12: a Delete with the email of an existing account removes exactly that
\* account and answers success; a Delete that repeats a successful Delete of
\* the same email, no Register having answered in between, answers 404
\* "User not found" and leaves the store unchanged; a Delete without an email
\* answers 400 and leaves the store unchanged.
C12_DeleteOnceThenNotFound ==
    [][\A email \in Emails \cup {Undefined} :
          DeleteUser(email) =>
             /\ email = Undefined
                => lastResp'.status = 400 /\ users' = users
             /\ (email # Undefined /\ EmailCount(email) >= 1 /\ ~JustDeleted(email))
                => /\ lastResp'.status = 200
                   /\ \E i \in 1..Len(users) :
                         users[i].email = email /\ users' = Without(users, i)
             /\ (email # Undefined /\ JustDeleted(email))
                => /\ lastResp'.status = 404
                   /\ lastResp'.message = "User not found"
                   /\ users' = users
      ]_vars


\* the documents of users' that users does not hold
Created == {j \in 1..Len(users') : \A i \in 1..Len(users) : users[i]._id # users'[j]._id}

\* C13: every account that a step adds to the store has role "user",
\* isVerified false and no isBlocked, whatever role, isVerified and isBlocked
\* the Register body carries.
C13_RegisterSetsNoFlags ==
    [][\A j \in Created :
          /\ users'[j].role = "user"
          /\ Get(users'[j], "isVerified") = "false"
          /\ Get(users'[j], "isBlocked") \in {Undefined, "false"}
      ]_vars

C13_Witness ==
    /\ lastResp.op = "register" /\ lastResp.status = 201
    /\ Get(lastResp.req.body, "role") = "admin"
    /\ Get(lastResp.req.body, "isVerified") = "true"
    /\ Get(lastResp.req.body, "isBlocked") = "true"
    /\ \E i \in 1..Len(users) :
          /\ users[i].email = lastResp.req.body.email
          /\ users[i].role = "user" /\ users[i].isVerified = "false"
          /\ "isBlocked" \notin DOMAIN users[i]


\* the request that LoginStart(body) suspends when the email has an account
LoginRequest(body) ==
    [op |-> "login", body |-> body, user |-> users[FindIndex(users, "email", body.email)]]

\* C14: no stored password is the plaintext that was registered; and a Login
\* for the email of a stored, unblocked account succeeds with a token when it
\* carries the plaintext that account was registered with, and is answered
\* 401 "Invalid email or password" when it carries any other password.
C14_RegisteredPasswordLogsIn ==
    [][/\ \A j \in 1..Len(users') : users'[j].password \notin Passwords
       /\ \A body \in LoginBodies, i \in 1..Len(users) :
             (/\ LoginStart(body)
              /\ body.password # Undefined
              /\ users[i].email = body.email
              /\ ~Truthy(Get(users[i], "isBlocked")))
             => LET answer == LoginResult(LoginRequest(body))
                IN  /\ LoginRequest(body) \in BagToSet(pending')
                    /\ IF Compare(body.password, users[i].password)
                       THEN /\ answer.status = 200
                            /\ "token" \in DOMAIN answer.data
                       ELSE /\ answer.status = 401
                            /\ answer.message = "Invalid email or password"
      ]_vars



\* C16: verify-user answers 404 "User not found" when no account has the
\* email; and whenever it answers success, an account with that email is
\* stored and has isVerified true, set by the update of that request.
C16_VerifySuccessMeansVerified ==
    [][/\ \A email \in Emails :
            (VerifyStart(email) /\ EmailCount(email) = 0)
            => /\ lastResp'.status = 404
               /\ lastResp'.message = "User not found"
       /\ \A r \in Suspended :
            (/\ r.op = "verify-user" /\ Resumes(r)
             /\ lastResp'.op = "verify-user" /\ lastResp'.status = 200)
            => \E i \in 1..Len(users') :
                  /\ users'[i].email = r.email
                  /\ users'[i].isVerified = "true"
      ]_vars


\* a stored report that is solved, with its resolution fields present
Solved(d) ==
    /\ Truthy(Get(d, "isSolved"))
    /\ ResolutionFields \subseteq DOMAIN d
    /\ Truthy(d.solution) /\ Truthy(d.solverName)

\* C17: a solved report stays stored and solved in every later state; a step
\* that changes it is a Resolve of that report, which stores new non-empty
\* solution and solverName and the current time as solvedAt, and leaves the
\* rest of the report as it was.
C17_SolvedStaysSolved ==
    [][\A i \in 1..Len(reports) :
          Solved(reports[i])
          => /\ i <= Len(reports')
             /\ reports'[i]._id = reports[i]._id
             /\ Solved(reports'[i])
             /\ reports'[i] # reports[i]
                => /\ \E r \in BagToSet(pending') :
                         /\ r.op = "resolve-report" /\ r.reportId = reports[i]._id
                         /\ reports'[i].solution = r.body.solution
                         /\ reports'[i].solverName = r.body.solverName
                   /\ reports'[i].solvedAt = now
                   /\ reports'[i].createdAt = reports[i].createdAt
                   /\ reports'[i].name = reports[i].name
      ]_vars

C17_Witness ==
    /\ lastResp.op = "resolve-report" /\ lastResp.status = 200
    /\ Solved(lastResp.data.report)
    /\ \E i \in 1..Len(reports) :
          /\ reports[i]._id = lastResp.data.report._id
          /\ Solved(reports[i])
          /\ reports[i].solverName # lastResp.data.report.solverName


Booleans == {"true", "false"}

\* C18: every stored account's isVerified is a boolean, and its isBlocked is
\* absent or a boolean.
C18_FlagsAreBooleans ==
    \A i \in 1..Len(users) :
        /\ "isVerified" \in DOMAIN users[i] /\ users[i].isVerified \in Booleans
        /\ "isBlocked" \in DOMAIN users[i] => users[i].isBlocked \in Booleans


\* the account a is one of the accounts of coll
AppearsIn(a, coll) ==
    \E j \in 1..Len(coll) :
        /\ coll[j]._id = a._id
        /\ coll[j].email = a.email
        /\ coll[j].createdAt = a.createdAt

\* C19 as stated: in every recent-users response, each account of
\* last30MinutesUsers appears in last24HoursUsers.
C19_ThirtyWithinTwentyFour ==
    (lastResp.op = "recent-users" /\ lastResp.status = 200)
    => \A i \in 1..Len(lastResp.data.last30MinutesUsers) :
          AppearsIn(lastResp.data.last30MinutesUsers[i], lastResp.data.last24HoursUsers)

\* C19 amended: when recent-users answers, each account of last30MinutesUsers
\* that is still stored when the second query runs appears in
\* last24HoursUsers of the same response.
C19_ThirtyStillStoredWithinTwentyFour ==
    [][\A r \in Suspended :
          (r.op = "recent-users" /\ Resumes(r) /\ lastResp'.op = "recent-users"
             /\ lastResp'.req = r)
          => /\ lastResp'.status = 200
             /\ lastResp'.data.last30MinutesUsers = r.last30MinutesUsers
             /\ \A i \in 1..Len(r.last30MinutesUsers) :
                   AppearsIn(r.last30MinutesUsers[i], users)
                   => AppearsIn(r.last30MinutesUsers[i], lastResp'.data.last24HoursUsers)
      ]_vars

\* recent-users has answered with an account in last30MinutesUsers and an
\* account in last24HoursUsers that was inserted between its two queries
C19_Witness ==
    /\ lastResp.op = "recent-users" /\ lastResp.status = 200
    /\ Len(lastResp.data.last30MinutesUsers) >= 1
    /\ \E j \in 1..Len(lastResp.data.last24HoursUsers) :
          /\ lastResp.data.last24HoursUsers[j].createdAt >= lastResp.req.now - ThirtyMinutes
          /\ ~AppearsIn(lastResp.data.last24HoursUsers[j], lastResp.data.last30MinutesUsers)


\* the step is the insertion of a Register that answers 201
RegisterSucceeds ==
    /\ lastResp'.op = "register" /\ lastResp'.status = 201
    /\ \E r \in Suspended : r.op = "register" /\ Resumes(r) /\ lastResp'.req = r

\* the step is a Delete of email that answers 200
DeleteSucceeds(email) ==
    /\ started' # started
    /\ lastResp'.op = "delete-user" /\ lastResp'.status = 200
    /\ lastResp'.req.email = email

\* C20: the store grows only by a successful Register and shrinks only by a
\* successful Delete; after a successful Delete of an email no account of that
\* email is stored, and an email without an account gets one only by a
\* successful Register, never by a verify-user or block-user update.
C20_AccountsOnlyByRegisterAndDelete ==
    [][/\ Len(users') > Len(users)
          => RegisterSucceeds /\ Len(users') = Len(users) + 1
       /\ Len(users') < Len(users)
          => \E email \in Emails : DeleteSucceeds(email)
       /\ \A email \in Emails :
             /\ DeleteSucceeds(email) => EmailCount(email)' = 0
             /\ (EmailCount(email) = 0 /\ EmailCount(email)' > 0)
                => RegisterSucceeds /\ lastResp'.req.body.email = email
      ]_vars

-----------------------------------------------------------------------------
(* Properties of error handling *)

\* C15: a request in which a storage call failed is answered 500 with a
\* message that is not the message of the storage error.
C15_StorageFailureIsGeneric500 ==
    "failed" \in DOMAIN lastResp.req
    => /\ lastResp.status = 500
       /\ lastResp.message # lastResp.req.failed

====
